---- MODULE Spec2Model ----
(***************************************************************************)
(* Model of ftp_sync.py: one run of the one-way synchronisation of the     *)
(* local directory 'output' to the directory FTP_PATH of an FTP server.    *)
(*                                                                         *)
(* A path is a sequence of path components.  Components of files and       *)
(* directories are the naturals 1..MaxTop; component 0 is the anchor of    *)
(* the two roots ('output' locally, the absolute FTP_PATH remotely).  The  *)
(* path '.' is the empty sequence.  FTP_PATH is taken to be absolute, so   *)
(* that a path prefixed with it names the same object on the server as the *)
(* path relative to the working directory set by cwd(FTP_PATH).            *)
(*                                                                         *)
(* The local file system does not change during a run, and nobody but the  *)
(* run changes the server.  The FTP server is the environment: every call  *)
(* may fail, and a call the server has to refuse (make-directory of an     *)
(* existing name or below a missing parent, store below a missing parent   *)
(* or onto a directory) always fails.                                      *)
(***************************************************************************)
EXTENDS Integers, Sequences, FiniteSets, TLC

\* ---------------------------------------------------------------- bounds
MaxTop == 2      \* names 1..MaxTop at the top level of a tree
MaxDepth == 2    \* below the name 1 a chain 1/1/... down to this depth
MaxSizeIdx == 1  \* file sizes are 0, SizeStep, .., MaxSizeIdx * SizeStep
SizeStep == 12   \* two decimal digits, so that the size fact has to be parsed

\* ------------------------------------------------------------ path algebra
\* local_site_path = 'output'
local_site_path == <<0>>

\* ftp_path = os.environ['FTP_PATH'] (absolute)
ftp_path == <<0>>

Dot == <<>>

\* pathlib: a / b
Join(a, b) == a \o b

IsPrefix(a, p) == Len(a) <= Len(p) /\ SubSeq(p, 1, Len(a)) = a

\* pathlib: Path(p).relative_to(base); only used where base is a prefix of p
relative_to(p, base) == SubSeq(p, Len(base) + 1, Len(p))

\* the last component of a non-empty path
Name(p) == p[Len(p)]

\* the directory holding p
Parent(p) == SubSeq(p, 1, Len(p) - 1)

\* The paths of the modelled trees, relative to the root of the tree.
RelPaths ==
    {<<n>> : n \in 1..MaxTop}
        \cup {[k \in 1..d |-> 1] : d \in 2..MaxDepth}

Sizes == {k * SizeStep : k \in 0..MaxSizeIdx}

\* str(n) for a natural n: its decimal digits
RECURSIVE Digits(_)
Digits(n) == IF n < 10 THEN <<n>> ELSE Digits(n \div 10) \o <<n % 10>>

\* int(s) for a string of decimal digits
RECURSIVE int(_)
int(s) == IF Len(s) = 0 THEN 0
          ELSE 10 * int(SubSeq(s, 1, Len(s) - 1)) + s[Len(s)]

\* A tree: directories and files (path -> attribute) do not share a path and
\* every entry lies in a directory of the tree (or in the root).
WellFormed(dirs, files) ==
    /\ dirs \cap DOMAIN files = {}
    /\ \A p \in dirs \cup DOMAIN files : Len(p) > 1 => Parent(p) \in dirs

\* the entries of set S that lie directly in directory p
ChildrenIn(p, S) == {q \in S : Len(q) = Len(p) + 1 /\ Parent(q) = p}

\* a set of sibling paths as a list, by ascending or by descending name
RECURSIVE Listing(_, _)
Listing(S, rev) ==
    IF S = {} THEN <<>>
    ELSE LET m == CHOOSE x \in S :
                    \A y \in S : IF rev THEN Name(y) <= Name(x)
                                        ELSE Name(x) <= Name(y)
         IN <<m>> \o Listing(S \ {m}, rev)

\* ------------------------------------------------------------- FTP server
\* the object on the server that an argument of an FTP call names: an
\* absolute path below FTP_PATH, or a path relative to the working directory
Resolve(p) == IF IsPrefix(ftp_path, p) THEN relative_to(p, ftp_path) ELSE p

\* ftp_client.mlsd(path): the entries of a directory with their facts, by
\* ascending name; the size fact is the size in decimal digits
mlsd(rD, rF, path) ==
    LET d == Resolve(path)
        es == Listing(ChildrenIn(d, rD \cup DOMAIN rF), FALSE)
    IN [i \in 1..Len(es) |->
            [name |-> Name(es[i]),
             type |-> IF es[i] \in rD THEN "dir" ELSE "file",
             size |-> IF es[i] \in rD THEN <<>> ELSE Digits(rF[es[i]])]]

\* the server accepts MKD of p
MkdAccepted(rD, rF, p) ==
    LET q == Resolve(p)
    IN /\ q \notin rD \cup DOMAIN rF
       /\ Len(q) > 1 => Parent(q) \in rD

\* the server accepts STOR to p
StorAccepted(rD, rF, p) ==
    LET q == Resolve(p)
    IN /\ q \notin rD
       /\ Len(q) > 1 => Parent(q) \in rD

\* the server accepts DELE of p
DeleAccepted(rD, rF, p) == Resolve(p) \in DOMAIN rF

\* the files of the server after a successful STOR of size bytes to p
Stored(rF, p, size) ==
    LET q == Resolve(p)
    IN [x \in DOMAIN rF \cup {q} |-> IF x = q THEN size ELSE rF[x]]

\* the files of the server after a successful DELE of p
Deleted(rF, p) == [x \in DOMAIN rF \ {Resolve(p)} |-> rF[x]]

\* ------------------------------------------------------ remote enumeration
RECURSIVE recursive_get_dirs(_, _, _)
RECURSIVE get_dirs_loop(_, _, _, _)

\* the for loop of recursive_get_dirs over the entries of path
get_dirs_loop(rD, rF, path, entries) ==
    IF entries = <<>> THEN <<>>
    ELSE (IF Head(entries).type = "dir"
          THEN recursive_get_dirs(rD, rF, Join(path, <<Head(entries).name>>))
          ELSE <<>>)
         \o get_dirs_loop(rD, rF, path, Tail(entries))

recursive_get_dirs(rD, rF, path) ==
    <<path>> \o get_dirs_loop(rD, rF, path, mlsd(rD, rF, path))

get_remote_dirs(rD, rF, path) == recursive_get_dirs(rD, rF, path)

\* the list comprehension of get_remote_files for one directory
files_in(rD, rF, dir) ==
    LET es == SelectSeq(mlsd(rD, rF, dir), LAMBDA f : f.type = "file")
    IN [i \in 1..Len(es) |->
            [path |-> Join(dir, <<es[i].name>>), size |-> es[i].size]]

RECURSIVE get_files_loop(_, _, _)
get_files_loop(rD, rF, dirs) ==
    IF dirs = <<>> THEN <<>>
    ELSE files_in(rD, rF, Head(dirs)) \o get_files_loop(rD, rF, Tail(dirs))

get_remote_files(rD, rF, path) ==
    get_files_loop(rD, rF, get_remote_dirs(rD, rF, path))

\* --------------------------------------------------------- local enumeration
RECURSIVE walk(_, _, _, _)
RECURSIVE walk_loop(_, _, _, _)

\* the walk of the sub-directories of one directory, in the order listed
walk_loop(lD, lF, rev, subdirs) ==
    IF subdirs = <<>> THEN <<>>
    ELSE walk(lD, lF, rev, Head(subdirs))
         \o walk_loop(lD, lF, rev, Tail(subdirs))

\* walk bottom up: the directories in a directory before the directory
walk_bottom_up(lD, lF, rev, root) ==
    LET r == relative_to(root, local_site_path)
        ds == Listing(ChildrenIn(r, lD), rev)
        fs == Listing(ChildrenIn(r, DOMAIN lF), rev)
    IN walk_loop(lD, lF, rev,
                 [i \in 1..Len(ds) |-> Join(root, <<Name(ds[i])>>)])
       \o <<[root |-> root,
             dirs |-> [i \in 1..Len(ds) |-> Name(ds[i])],
             files |-> [i \in 1..Len(fs) |-> Name(fs[i])]]>>

\* Path(root).walk(): top down, a directory before the directories in it
walk(lD, lF, rev, root) ==
    LET r == relative_to(root, local_site_path)
        ds == Listing(ChildrenIn(r, lD), rev)
        fs == Listing(ChildrenIn(r, DOMAIN lF), rev)
    IN <<[root |-> root,
          dirs |-> [i \in 1..Len(ds) |-> Name(ds[i])],
          files |-> [i \in 1..Len(fs) |-> Name(fs[i])]]>>
       \o walk_loop(lD, lF, rev,
                    [i \in 1..Len(ds) |-> Join(root, <<Name(ds[i])>>)])

\* os.path.getsize(filepath)
getsize(lF, filepath) == lF[relative_to(filepath, local_site_path)]

\* the loop filling local_files: one entry per file, in walk order
RECURSIVE collect_local_files(_, _)
collect_local_files(lF, w) ==
    IF w = <<>> THEN <<>>
    ELSE [i \in 1..Len(Head(w).files) |->
            LET filepath == Join(Head(w).root, <<Head(w).files[i]>>)
            IN [path |-> filepath, size |-> getsize(lF, filepath)]]
         \o collect_local_files(lF, Tail(w))

\* the loop filling local_dirs: one entry per directory, in walk order
RECURSIVE collect_local_dirs(_)
collect_local_dirs(w) ==
    IF w = <<>> THEN <<>>
    ELSE [i \in 1..Len(Head(w).dirs) |->
            relative_to(Join(Head(w).root, <<Head(w).dirs[i]>>),
                        local_site_path)]
         \o collect_local_dirs(Tail(w))

\* ------------------------------------------------------------ diff engine
\* next((file for file in remote_files if ... == remote_file), None);
\* the empty sequence stands for None
remote_file_info(rfiles, remote_file) ==
    LET hits == SelectSeq(rfiles,
                          LAMBDA f : relative_to(f.path, Dot) = remote_file)
    IN IF hits = <<>> THEN <<>> ELSE <<Head(hits)>>

\* is_changed without the comparison of the sizes
is_changed_missing_only(rfiles, lf) ==
    remote_file_info(rfiles, relative_to(lf.path, local_site_path)) = <<>>

\* is_changed with a test for a different size instead of a smaller one
is_changed_size_differs(rfiles, lf) ==
    LET info == remote_file_info(rfiles,
                                 relative_to(lf.path, local_site_path))
    IN info = <<>> \/ int(info[1].size) # lf.size

\* is_changed without the test for a missing remote file
is_changed_smaller_only(rfiles, lf) ==
    LET info == remote_file_info(rfiles,
                                 relative_to(lf.path, local_site_path))
    IN info # <<>> /\ int(info[1].size) < lf.size

\* the condition under which a local file is appended to changed_files
is_changed(rfiles, lf) ==
    LET info == remote_file_info(rfiles,
                                 relative_to(lf.path, local_site_path))
    IN info = <<>> \/ int(info[1].size) < lf.size

\* the keys of local_files, in insertion order
keys(lfiles) == [i \in 1..Len(lfiles) |-> lfiles[i].path]

\* changed_files_of without the force branch
changed_files_of_no_force(rfiles, lfiles, frc) ==
    keys(SelectSeq(lfiles, LAMBDA lf : is_changed(rfiles, lf)))

\* changed_files after the change detection and the force branch
changed_files_of(rfiles, lfiles, frc) ==
    IF frc THEN keys(lfiles)
    ELSE keys(SelectSeq(lfiles, LAMBDA lf : is_changed(rfiles, lf)))

\* files_to_delete_of with the local keys not made relative to 'output'
files_to_delete_of_local_not_relative(rfiles, lfiles) ==
    LET local_file_paths == {lfiles[i].path : i \in 1..Len(lfiles)}
        remote_file_paths ==
            {relative_to(rfiles[i].path, Dot) : i \in 1..Len(rfiles)}
    IN remote_file_paths \ local_file_paths

\* files_to_delete of delete_remote_files_not_in_local
files_to_delete_of(rfiles, lfiles) ==
    LET local_file_paths ==
            {relative_to(lfiles[i].path, local_site_path) :
                i \in 1..Len(lfiles)}
        remote_file_paths ==
            {relative_to(rfiles[i].path, Dot) : i \in 1..Len(rfiles)}
    IN remote_file_paths \ local_file_paths

\* --------------------------------------------------------- error handling
\* Raise with no handler in the delete loop
Raise_delete_propagates(call) == "failed"

\* Raise with a handler in the upload loop as well
Raise_stor_caught(call) ==
    IF call \in {"delete", "stor"} THEN "running" ELSE "failed"

\* The status of the run after the named call raised: the handlers of the
\* delete loop catch the exception and the loop goes on; every other
\* exception reaches the handler at the top level, which ends the run.
Raise(call) == IF call = "delete" THEN "running" ELSE "failed"

\* not_in_remote_dirs with remote_dirs left as initialised, an empty list
not_in_remote_dirs_empty(d, rdirs) == \A k \in {} : rdirs[k] # d

\* the test of the mirroring loop: d not in remote_dirs
not_in_remote_dirs(d, rdirs) == \A k \in 1..Len(rdirs) : rdirs[k] # d

\* ------------------------------------------------------------------- state
VARIABLES
    force,            \* args.force
    lDirs, lFiles,    \* the local tree below 'output': directories, file -> size
    rDirs, rFiles,    \* the server below FTP_PATH: directories, file -> size
    rDirs0, rFiles0,  \* the server at the start of the run
    scanRev,          \* the order in which the local directories are scanned
    pc,               \* the position of the run, "done" after the last call
    status,           \* "running", or "failed" after the top-level handler
    failure,          \* the call that failed last, "none" if no call failed
    remote_files, local_files, changed_files,
    local_dirs, remote_dirs,
    files_to_delete,
    deleted,          \* the files of files_to_delete the delete loop is through
    i,                \* the position of the mirroring and of the upload loop
    mkdCalls, storCalls, deleteCalls,   \* the arguments of the calls issued
    deleteFailed,     \* the arguments of the delete calls that failed
    quitCalled

vars == <<force, lDirs, lFiles, rDirs, rFiles, rDirs0, rFiles0, scanRev, pc,
          status, failure, remote_files, local_files, changed_files,
          local_dirs, remote_dirs, files_to_delete, deleted, i, mkdCalls,
          storCalls, deleteCalls, deleteFailed, quitCalled>>

fsVars == <<force, lDirs, lFiles, rDirs0, rFiles0>>
srvVars == <<rDirs, rFiles>>
listVars == <<remote_files, local_files, changed_files, local_dirs,
              remote_dirs, files_to_delete>>
callVars == <<mkdCalls, storCalls, deleteCalls, deleteFailed, quitCalled>>

Trees ==
    {t \in [dirs : SUBSET RelPaths,
            files : UNION {[D -> Sizes] : D \in SUBSET RelPaths}] :
        WellFormed(t.dirs, t.files)}

Init ==
    /\ force \in BOOLEAN
    /\ \E t \in Trees : lDirs = t.dirs /\ lFiles = t.files
    /\ \E t \in Trees : rDirs = t.dirs /\ rFiles = t.files
    /\ rDirs0 = rDirs
    /\ rFiles0 = rFiles
    /\ scanRev = FALSE
    /\ pc = "connect"
    /\ status = "running"
    /\ failure = "none"
    /\ remote_files = <<>>
    /\ local_files = <<>>
    /\ changed_files = <<>>
    /\ local_dirs = <<>>
    /\ remote_dirs = <<>>
    /\ files_to_delete = {}
    /\ deleted = {}
    /\ i = 1
    /\ mkdCalls = <<>>
    /\ storCalls = <<>>
    /\ deleteCalls = <<>>
    /\ deleteFailed = {}
    /\ quitCalled = FALSE

\* ----------------------------------------------------------------- actions
\* the named call raised
Raised(call) == status' = Raise(call) /\ failure' = call

\* the call returned
Returned == status' = status /\ failure' = failure

\* lines 97-100: connect, login, prot_p, cwd
Connect ==
    /\ status = "running" /\ pc = "connect"
    /\ \E outcome \in {"ok", "connect", "login", "prot_p", "cwd"} :
          IF outcome = "ok"
          THEN pc' = "get_remote" /\ Returned
          ELSE pc' = pc /\ Raised(outcome)
    /\ UNCHANGED <<fsVars, srvVars, scanRev, listVars, deleted, i, callVars>>

\* line 104: remote_files = get_remote_files(ftp_client, '.')
GetRemoteFiles ==
    /\ status = "running" /\ pc = "get_remote"
    /\ \E ok \in BOOLEAN :
          IF ok
          THEN /\ remote_files' = get_remote_files(rDirs, rFiles, Dot)
               /\ pc' = "get_local"
               /\ Returned
          ELSE /\ remote_files' = remote_files
               /\ pc' = pc
               /\ Raised("mlsd")
    /\ UNCHANGED <<fsVars, srvVars, scanRev, local_files, changed_files,
                   local_dirs, remote_dirs, files_to_delete, deleted, i,
                   callVars>>

\* lines 107-112: the walk that fills local_files
GetLocalFiles ==
    /\ status = "running" /\ pc = "get_local"
    /\ \E rev \in BOOLEAN :
          /\ scanRev' = rev
          /\ local_files' =
                collect_local_files(lFiles,
                                    walk(lDirs, lFiles, rev, local_site_path))
    /\ pc' = "diff"
    /\ UNCHANGED <<fsVars, srvVars, status, failure, remote_files,
                   changed_files, local_dirs, remote_dirs, files_to_delete,
                   deleted, i, callVars>>

\* lines 116-126: change detection and force branch
Diff ==
    /\ status = "running" /\ pc = "diff"
    /\ changed_files' = changed_files_of(remote_files, local_files, force)
    /\ pc' = "mirror_list"
    /\ UNCHANGED <<fsVars, srvVars, scanRev, status, failure, remote_files,
                   local_files, local_dirs, remote_dirs, files_to_delete,
                   deleted, i, callVars>>

\* lines 130-136: local_dirs and remote_dirs
MirrorList ==
    /\ status = "running" /\ pc = "mirror_list"
    /\ local_dirs' =
          collect_local_dirs(walk(lDirs, lFiles, scanRev, local_site_path))
    /\ \E ok \in BOOLEAN :
          IF ok
          THEN /\ remote_dirs' =
                    LET ds == get_remote_dirs(rDirs, rFiles, ftp_path)
                    IN [k \in 1..Len(ds) |-> relative_to(ds[k], ftp_path)]
               /\ pc' = "mirror"
               /\ Returned
          ELSE /\ remote_dirs' = remote_dirs
               /\ pc' = pc
               /\ Raised("mlsd")
    /\ i' = 1
    /\ UNCHANGED <<fsVars, srvVars, scanRev, remote_files, local_files,
                   changed_files, files_to_delete, deleted, callVars>>

\* lines 137-139: one pass of the mirroring loop
MirrorStep ==
    /\ status = "running" /\ pc = "mirror"
    /\ i <= Len(local_dirs)
    /\ LET d == local_dirs[i]
       IN IF not_in_remote_dirs(d, remote_dirs)
          THEN /\ mkdCalls' = Append(mkdCalls, d)
               /\ \E ok \in BOOLEAN :
                     /\ ok => MkdAccepted(rDirs, rFiles, d)
                     /\ IF ok
                        THEN /\ rDirs' = rDirs \cup {Resolve(d)}
                             /\ i' = i + 1
                             /\ Returned
                        ELSE /\ rDirs' = rDirs
                             /\ i' = i
                             /\ Raised("mkd")
          ELSE /\ i' = i + 1
               /\ UNCHANGED <<mkdCalls, rDirs, status, failure>>
    /\ UNCHANGED <<fsVars, rFiles, scanRev, pc, listVars, deleted, storCalls,
                   deleteCalls, deleteFailed, quitCalled>>

\* the mirroring loop is through local_dirs
MirrorEnd ==
    /\ status = "running" /\ pc = "mirror"
    /\ i > Len(local_dirs)
    /\ pc' = "upload"
    /\ i' = 1
    /\ UNCHANGED <<fsVars, srvVars, scanRev, status, failure, listVars,
                   deleted, callVars>>

\* lines 142-146: one pass of the upload loop
UploadStep ==
    /\ status = "running" /\ pc = "upload"
    /\ i <= Len(changed_files)
    /\ LET file == changed_files[i]
           remote_file_path ==
               Join(ftp_path, relative_to(file, local_site_path))
       IN /\ storCalls' = Append(storCalls, remote_file_path)
          /\ \E ok \in BOOLEAN :
                /\ ok => StorAccepted(rDirs, rFiles, remote_file_path)
                /\ IF ok
                   THEN /\ rFiles' = Stored(rFiles, remote_file_path,
                                            getsize(lFiles, file))
                        /\ i' = i + 1
                        /\ Returned
                   ELSE /\ rFiles' = rFiles
                        /\ i' = i
                        /\ Raised("stor")
    /\ UNCHANGED <<fsVars, rDirs, scanRev, pc, listVars, deleted, mkdCalls,
                   deleteCalls, deleteFailed, quitCalled>>

\* the upload loop is through changed_files
UploadEnd ==
    /\ status = "running" /\ pc = "upload"
    /\ i > Len(changed_files)
    /\ pc' = "delete_start"
    /\ UNCHANGED <<fsVars, srvVars, scanRev, status, failure, listVars,
                   deleted, i, callVars>>

\* lines 35-45: the delete set, and the return when it is empty
DeleteStart ==
    /\ status = "running" /\ pc = "delete_start"
    /\ files_to_delete' = files_to_delete_of(remote_files, local_files)
    /\ pc' = IF files_to_delete' = {} THEN "quit" ELSE "delete"
    /\ UNCHANGED <<fsVars, srvVars, scanRev, status, failure, remote_files,
                   local_files, changed_files, local_dirs, remote_dirs,
                   deleted, i, callVars>>

\* lines 48-56: one pass of the delete loop; a set is iterated in any order
DeleteStep ==
    /\ status = "running" /\ pc = "delete"
    /\ \E remote_file \in files_to_delete \ deleted :
          LET remote_full_path == Join(ftp_path, remote_file)
          IN /\ deleteCalls' = Append(deleteCalls, remote_full_path)
             /\ \E ok \in BOOLEAN :
                   /\ ok => DeleAccepted(rDirs, rFiles, remote_full_path)
                   /\ IF ok
                      THEN /\ rFiles' = Deleted(rFiles, remote_full_path)
                           /\ deleteFailed' = deleteFailed
                           /\ Returned
                      ELSE /\ rFiles' = rFiles
                           /\ deleteFailed' =
                                 deleteFailed \cup {remote_full_path}
                           /\ Raised("delete")
             /\ deleted' = deleted \cup {remote_file}
    /\ UNCHANGED <<fsVars, rDirs, scanRev, pc, listVars, i, mkdCalls,
                   storCalls, quitCalled>>

\* the delete loop is through files_to_delete
DeleteEnd ==
    /\ status = "running" /\ pc = "delete"
    /\ files_to_delete \ deleted = {}
    /\ pc' = "quit"
    /\ UNCHANGED <<fsVars, srvVars, scanRev, status, failure, listVars,
                   deleted, i, callVars>>

\* Quit without the call
Quit_without_call ==
    /\ status = "running" /\ pc = "quit"
    /\ pc' = "done"
    /\ UNCHANGED <<fsVars, srvVars, scanRev, status, failure, listVars,
                   deleted, i, callVars>>

\* line 153: ftp_client.quit()
Quit ==
    /\ status = "running" /\ pc = "quit"
    /\ quitCalled' = TRUE
    /\ \E ok \in BOOLEAN :
          IF ok
          THEN pc' = "done" /\ Returned
          ELSE pc' = pc /\ Raised("quit")
    /\ UNCHANGED <<fsVars, srvVars, scanRev, listVars, deleted, i, mkdCalls,
                   storCalls, deleteCalls, deleteFailed>>

Next ==
    \/ Connect
    \/ GetRemoteFiles
    \/ GetLocalFiles
    \/ Diff
    \/ MirrorList
    \/ MirrorStep
    \/ MirrorEnd
    \/ UploadStep
    \/ UploadEnd
    \/ DeleteStart
    \/ DeleteStep
    \/ DeleteEnd
    \/ Quit

Spec == Init /\ [][Next]_vars

\* ------------------------------------------------------------- properties
Range(s) == {s[k] : k \in 1..Len(s)}

\* how often x occurs in the list s
Count(s, x) == Cardinality({k \in 1..Len(s) : s[k] = x})

\* the key of local_files of the local file with relative path p
LocalPath(p) == Join(local_site_path, p)

\* the argument of the store and of the delete call for relative path p
RemotePath(p) == Join(ftp_path, p)

LocalFilePaths == DOMAIN lFiles
RemoteFilePaths0 == DOMAIN rFiles0

\* the change detection is through
PastDiff == pc \notin {"connect", "get_remote", "get_local", "diff"}

\* the mirroring loop is through
MirrorDone == pc \in {"upload", "delete_start", "delete", "quit", "done"}

\* the upload loop is through
UploadDone == pc \in {"delete_start", "delete", "quit", "done"}

\* delete_remote_files_not_in_local has returned
DeletionDone == pc \in {"quit", "done"}

\* the run is over
RunEnded == pc = "done" \/ status = "failed"

\* C1: without force, once the change detection is through, every local file
\* that has no remote file of the same relative path, or whose remote file is
\* strictly smaller than the local file, is in changed_files.
Thm_C1 ==
    (~force /\ PastDiff) =>
        \A p \in LocalFilePaths :
            (p \notin RemoteFilePaths0 \/ rFiles0[p] < lFiles[p])
                => LocalPath(p) \in Range(changed_files)

Wit_C1 ==
    /\ ~force /\ PastDiff
    /\ \E p \in LocalFilePaths :
          /\ p \notin RemoteFilePaths0
          /\ LocalPath(p) \in Range(changed_files)
    /\ \E p \in LocalFilePaths :
          /\ p \in RemoteFilePaths0 /\ rFiles0[p] < lFiles[p]
          /\ LocalPath(p) \in Range(changed_files)

\* C2: without force, a local file whose remote file of the same relative
\* path is at least as large as the local file is never in changed_files and
\* no store call is ever issued for it.
Thm_C2 ==
    ~force =>
        \A p \in LocalFilePaths :
            (p \in RemoteFilePaths0 /\ rFiles0[p] >= lFiles[p])
                => /\ LocalPath(p) \notin Range(changed_files)
                   /\ RemotePath(p) \notin Range(storCalls)

Wit_C2 ==
    /\ ~force /\ pc = "done"
    /\ storCalls # <<>>
    /\ \E p \in LocalFilePaths :
          /\ p \in RemoteFilePaths0 /\ rFiles0[p] > lFiles[p]
          /\ rFiles[p] = rFiles0[p]

\* C3: with force, once the change detection is through, changed_files lists
\* exactly the local files, each once; and once the upload loop is through, a
\* store call has been issued for every local file.
Thm_C3 ==
    force =>
        /\ PastDiff =>
              /\ Range(changed_files) = {LocalPath(p) : p \in LocalFilePaths}
              /\ Len(changed_files) = Cardinality(LocalFilePaths)
        /\ UploadDone =>
              \A p \in LocalFilePaths : Count(storCalls, RemotePath(p)) = 1

Wit_C3 ==
    /\ force /\ pc = "done" /\ failure = "none"
    /\ Cardinality(LocalFilePaths) >= 2
    /\ \E p \in LocalFilePaths :
          /\ p \in RemoteFilePaths0 /\ rFiles0[p] >= lFiles[p]
          /\ RemotePath(p) \in Range(storCalls)
    /\ \E p \in LocalFilePaths : p \notin RemoteFilePaths0

\* C4: no make-directory call is ever issued for a local directory that is a
\* directory of the server at the start of the run, none is issued twice, and
\* once the mirroring loop is through exactly one has been issued for every
\* other local directory.
Thm_C4 ==
    /\ Range(mkdCalls) \subseteq lDirs
    /\ \A d \in lDirs :
          /\ Count(mkdCalls, d) <= 1
          /\ d \in rDirs0 => Count(mkdCalls, d) = 0
    /\ MirrorDone => \A d \in lDirs \ rDirs0 : Count(mkdCalls, d) = 1

Wit_C4 ==
    /\ MirrorDone
    /\ \E d \in lDirs : d \in rDirs0
    /\ Len(mkdCalls) >= 2

\* C5: a failed delete call never ends the run, and when
\* delete_remote_files_not_in_local has returned, a delete call has been
\* issued for each remote file of the start of the run whose relative path is
\* not that of a local file, and for nothing else.
Thm_C5 ==
    /\ pc = "delete" => status = "running"
    /\ DeletionDone =>
          /\ Range(deleteCalls) =
                {RemotePath(p) : p \in RemoteFilePaths0 \ LocalFilePaths}
          /\ deleteFailed \subseteq Range(deleteCalls)

Wit_C5 ==
    /\ DeletionDone
    /\ Len(deleteCalls) >= 2
    /\ deleteCalls[1] \in deleteFailed
    /\ deleteCalls[2] \notin deleteFailed

\* C6: a failed call other than a delete ends the run; from then on no call
\* is issued and the server does not change; the step in which the call fails
\* leaves the directories and files of the server as they were, so that the
\* directories made and the files stored before are still there.
Thm_C6 ==
    [][ /\ failure' \notin {"none", "delete"} => status' = "failed"
        /\ status = "failed" =>
              UNCHANGED <<mkdCalls, storCalls, deleteCalls, quitCalled,
                          rDirs, rFiles>>
        /\ status' = "failed" =>
              /\ rDirs' = rDirs /\ rFiles' = rFiles
              /\ \A k \in 1..Len(mkdCalls) : Resolve(mkdCalls[k]) \in rDirs'
              /\ \A k \in 1..Len(storCalls) :
                    Resolve(storCalls[k]) \in DOMAIN rFiles'
      ]_vars

Wit_C6 ==
    /\ status = "failed" /\ failure = "stor"
    /\ mkdCalls # <<>>
    /\ storCalls # <<>>
    /\ RemoteFilePaths0 \ LocalFilePaths # {}
    /\ deleteCalls = <<>>

\* C7: when the run is over, quit has been called exactly if the run got
\* through every phase up to and including the deletion, and quit is never
\* called before that.
Thm_C7 ==
    /\ quitCalled => DeletionDone
    /\ RunEnded => (quitCalled <=> DeletionDone)

Wit_C7 ==
    /\ pc = "done" /\ quitCalled
    /\ deleteFailed # {}
    /\ storCalls # <<>>

\* C8: whenever a make-directory call is issued for a nested directory, the
\* directory holding it exists on the server: it was there at the start of
\* the run or an earlier make-directory call of the run was issued for it.
Thm_C8 ==
    [][ mkdCalls' # mkdCalls =>
          LET d == mkdCalls'[Len(mkdCalls')]
          IN Len(d) > 1 =>
                /\ Parent(d) \in rDirs
                /\ Parent(d) \in rDirs0 \/ Parent(d) \in Range(mkdCalls)
      ]_vars

Wit_C8 ==
    \E k \in 2..Len(mkdCalls) :
        /\ Len(mkdCalls[k]) > 1
        /\ \E j \in 1..(k - 1) : mkdCalls[j] = Parent(mkdCalls[k])
        /\ Resolve(mkdCalls[k]) \in rDirs

\* C9: no delete call is ever issued for the relative path of a local file,
\* and none for a path a store call of the run was issued for.
Thm_C9 ==
    /\ \A p \in LocalFilePaths : RemotePath(p) \notin Range(deleteCalls)
    /\ Range(storCalls) \cap Range(deleteCalls) = {}

Wit_C9 ==
    /\ pc = "done"
    /\ deleteCalls # <<>>
    /\ storCalls # <<>>
    /\ \E p \in LocalFilePaths :
          /\ p \in RemoteFilePaths0
          /\ RemotePath(p) \in Range(storCalls)
          /\ p \in DOMAIN rFiles

\* C10: after a run in which no call failed, the relative paths of the files
\* of the server are those of the local files, and every local directory is a
\* directory of the server.
Thm_C10 ==
    (pc = "done" /\ failure = "none") =>
        /\ DOMAIN rFiles = LocalFilePaths
        /\ lDirs \subseteq rDirs

Wit_C10 ==
    /\ pc = "done" /\ failure = "none"
    /\ mkdCalls # <<>>
    /\ storCalls # <<>>
    /\ deleteCalls # <<>>

====
